---------------------------- MODULE Spec2Model ----------------------------
(***************************************************************************)
(* Model of the Tempest integration: the config flow (config_flow.py),     *)
(* the OAuth2 token normalisation, the cloud coordinator (coordinator.py)  *)
(* and the config-entry lifecycle hooks (__init__.py, sensor.py).          *)
(*                                                                         *)
(* Six specifications share the variables:                                 *)
(*   SpecNorm     the token normalisation applied to one provider response *)
(*   SpecFlow     config flows creating entries                            *)
(*   SpecLife     setup / refresh / unload / device removal of entries     *)
(*   SpecPull     one cloud entry, its refreshes and its entities' reads   *)
(*   SpecExtract  one sensor description's extractor applied to one input  *)
(*   SpecEntity   one push entity attached to, and removed from, a device  *)
(***************************************************************************)
EXTENDS Integers, Sequences, FiniteSets, TLC

VARIABLES
    raw,          \* SpecNorm: the provider's token payload
    resolved,     \* SpecNorm: outcome of async_resolve_external_data
    entries,      \* SpecFlow: the host's config entries of this domain, in creation order
    flows,        \* SpecFlow: the config flows in progress
    lastFlow,     \* SpecFlow: the last flow handler call and its result
    hassData,     \* SpecLife: hass.data[DOMAIN], entry id -> stored instance
    listeners,    \* SpecLife: the WeatherFlowListener built by each entry's setup
    coordinators, \* SpecLife: the coordinator built by each entry's setup
    entryState,   \* SpecLife: the host's state of each entry
    platform,     \* SpecLife: what the sensor platform registered for each entry
    pending,      \* SpecLife: the dispatches async_at_started holds until the host has started
    hass,         \* SpecLife: the host's core state
    lastHook,     \* SpecLife: the last hook call and its result
    extraction,   \* SpecExtract: one description, its input and the extractor's result
    sensor        \* SpecEntity: one push entity and its device

vars == <<raw, resolved, entries, flows, lastFlow,
          hassData, listeners, coordinators, entryState, platform, pending, hass, lastHook,
          extraction, sensor>>

normVars == <<raw, resolved>>
flowVars == <<entries, flows, lastFlow>>
lifeVars == <<hassData, listeners, coordinators, entryState, platform, pending, hass, lastHook>>
pureVars == <<extraction, sensor>>

(***************************************************************************)
(* Python values.  Every value is a record of one shape, so that values of *)
(* different Python types can be compared: t is the type, n the number of  *)
(* an int (the whole part of a float), s the characters of a str (the      *)
(* fraction digits of a float), d the items of a dict.                     *)
(***************************************************************************)
EmptyDict == [k \in {} |-> 0]

None == [t |-> "none", n |-> 0, s |-> <<>>, d |-> EmptyDict]

IntV(i) == [t |-> "int", n |-> i, s |-> <<>>, d |-> EmptyDict]

FloatV(whole, frac) == [t |-> "float", n |-> whole, s |-> frac, d |-> EmptyDict]

StrV(chars) == [t |-> "str", n |-> 0, s |-> chars, d |-> EmptyDict]

DictV(items) == [t |-> "dict", n |-> 0, s |-> <<>>, d |-> items]

\* dict.get(key, default)
DictGet(dict, key, default) == IF key \in DOMAIN dict THEN dict[key] ELSE default

Digits == {"0", "1", "2", "3", "4", "5", "6", "7", "8", "9"}

DigitVal(c) ==
    CASE c = "0" -> 0 [] c = "1" -> 1 [] c = "2" -> 2 [] c = "3" -> 3
      [] c = "4" -> 4 [] c = "5" -> 5 [] c = "6" -> 6 [] c = "7" -> 7
      [] c = "8" -> 8 [] c = "9" -> 9

RECURSIVE StripLeft(_)
StripLeft(chars) ==
    IF chars # <<>> /\ Head(chars) = " " THEN StripLeft(Tail(chars)) ELSE chars

RECURSIVE StripRight(_)
StripRight(chars) ==
    IF chars # <<>> /\ chars[Len(chars)] = " "
    THEN StripRight(SubSeq(chars, 1, Len(chars) - 1))
    ELSE chars

RECURSIVE DigitsValue(_, _)
DigitsValue(chars, acc) ==
    IF chars = <<>> THEN acc
    ELSE DigitsValue(Tail(chars), 10 * acc + DigitVal(Head(chars)))

\* Python's int(x): an int is kept, a float is truncated, a str is stripped,
\* an optional sign is read and the rest must be decimal digits; None raises
\* TypeError, any other string ValueError.
PyInt(v) ==
    CASE v.t = "int" -> [exc |-> "none", n |-> v.n]
      [] v.t = "float" -> [exc |-> "none", n |-> v.n]
      [] v.t = "str" ->
            LET body == StripRight(StripLeft(v.s))
                signed == body # <<>> /\ Head(body) \in {"-", "+"}
                digits == IF signed THEN Tail(body) ELSE body
            IN  IF digits # <<>> /\ \A i \in 1..Len(digits) : digits[i] \in Digits
                THEN [exc |-> "none",
                      n |-> IF signed /\ Head(body) = "-"
                            THEN 0 - DigitsValue(digits, 0)
                            ELSE DigitsValue(digits, 0)]
                ELSE [exc |-> "ValueError", n |-> 0]
      [] OTHER -> [exc |-> "TypeError", n |-> 0]

(***************************************************************************)
(* const.py                                                                *)
(***************************************************************************)
DOMAIN_ == StrV(<<"t", "e", "m", "p", "e", "s", "t">>)

DATA_SOURCE == "data_source"

LocalStr == StrV(<<"l", "o", "c", "a", "l">>)

CloudStr == StrV(<<"c", "l", "o", "u", "d">>)

DATA_SOURCE_OPTIONS == {LocalStr, CloudStr}

ERROR_MSG_CANNOT_CONNECT == "cannot_connect"

ERROR_MSG_NO_DEVICE_FOUND == "no_devices_found"

(***************************************************************************)
(* TempestPkceImplementation.async_resolve_external_data                   *)
(***************************************************************************)
DefaultExpiresIn == 3600

BearerStr == StrV(<<"B", "e", "a", "r", "e", "r">>)

\* A plausible slip: the refresh token read from the provider's own
\* refresh_token field, which the provider does not issue.
ResolveExternalData_ReadsRefreshToken(payload) ==
    LET conv == PyInt(DictGet(payload, "expires_in", IntV(DefaultExpiresIn)))
    IN  IF conv.exc # "none"
        THEN [exc |-> conv.exc, value |-> EmptyDict]
        ELSE [exc |-> "none",
              value |-> [access_token |-> DictGet(payload, "access_token", None),
                         refresh_token |-> DictGet(payload, "refresh_token", None),
                         expires_in |-> IntV(conv.n),
                         token_type |-> DictGet(payload, "token_type", BearerStr)]]

\* The dict the method returns, or the exception int() raises.
ResolveExternalData(payload) ==
    LET conv == PyInt(DictGet(payload, "expires_in", IntV(DefaultExpiresIn)))
    IN  IF conv.exc # "none"
        THEN [exc |-> conv.exc, value |-> EmptyDict]
        ELSE [exc |-> "none",
              value |-> [access_token |-> DictGet(payload, "access_token", None),
                         refresh_token |-> DictGet(payload, "access_token", None),
                         expires_in |-> IntV(conv.n),
                         token_type |-> DictGet(payload, "token_type", BearerStr)]]

\* Provider responses: each field absent or one of a few values.
AccessTokens == {StrV(<<"X">>), StrV(<<"Y">>)}

ExpiresIns ==
    {IntV(7200), IntV(0), FloatV(7200, <<"5">>), None,
     StrV(<<"7", "2", "0", "0">>), StrV(<<" ", "6", "0">>), StrV(<<"x">>)}

TokenTypes == {BearerStr, StrV(<<"m", "a", "c">>)}

Payload(fields, a, e, t) ==
    [k \in fields |-> CASE k = "access_token" -> a
                        [] k = "expires_in" -> e
                        [] k = "token_type" -> t]

ProviderResponses ==
    {Payload(fields, a, e, t) :
        fields \in SUBSET {"access_token", "expires_in", "token_type"},
        a \in AccessTokens, e \in ExpiresIns, t \in TokenTypes}

Pending == [exc |-> "pending", value |-> EmptyDict]


(***************************************************************************)
(* Python exception classes the code distinguishes.  TimeoutError is a     *)
(* subclass of OSError; the listener SDK's ListenerError derives from      *)
(* Exception only; the HTTP client's ClientResponseError (which carries a  *)
(* status) and ClientConnectionError both derive from ClientError.         *)
(***************************************************************************)
ExcBases(exc) ==
    CASE exc = "TimeoutError" -> {"TimeoutError", "OSError", "Exception"}
      [] exc = "OSError" -> {"OSError", "Exception"}
      [] exc = "ListenerError" -> {"ListenerError", "Exception"}
      [] exc = "ClientResponseError" -> {"ClientResponseError", "ClientError", "Exception"}
      [] exc = "ClientConnectionError" -> {"ClientConnectionError", "ClientError", "Exception"}
      [] OTHER -> {}

IsInstance(exc, cls) == cls \in ExcBases(exc)

(***************************************************************************)
(* _async_can_discover_devices.  body is what happens inside the try       *)
(* block: the listener binds (ListenerError when it cannot), then the      *)
(* wait for the first discovery event ends by the event ("found"), by the  *)
(* 10 second timeout (TimeoutError) or by a transport error (OSError).     *)
(***************************************************************************)
ProbeBodies == {"found", "TimeoutError", "OSError", "ListenerError"}

\* A plausible slip: the timeout is re-raised like any other exception.
CanDiscoverDevices_TimeoutEscapes(body) ==
    IF body = "found"
    THEN [raised |-> "none", ret |-> TRUE]
    ELSE [raised |-> body, ret |-> FALSE]

CanDiscoverDevices(body) ==
    CASE body = "found" -> [raised |-> "none", ret |-> TRUE]
      [] IsInstance(body, "TimeoutError") -> [raised |-> "none", ret |-> FALSE]
      [] OTHER -> [raised |-> body, ret |-> FALSE]

NotProbed == [raised |-> "none", ret |-> FALSE]

(***************************************************************************)
(* ConfigFlow                                                              *)
(***************************************************************************)
NoErrors == EmptyDict

BaseError(code) == [k \in {"base"} |-> code]

NoResult ==
    [type |-> "none", step_id |-> "", reason |-> "", errors |-> NoErrors,
     title |-> "", data |-> None, exc |-> ""]

ShowForm(step, errs) == [NoResult EXCEPT !.type = "form", !.step_id = step, !.errors = errs]

Abort(why) == [NoResult EXCEPT !.type = "abort", !.reason = why]

CreateEntry(name, entryData) ==
    [NoResult EXCEPT !.type = "create_entry", !.title = name, !.data = entryData]

\* The host's async_step_auth: the external authorisation step.
StepAuth == [NoResult EXCEPT !.type = "external_step", !.step_id = "auth"]

Raised(exc) == [NoResult EXCEPT !.type = "exception", !.exc = exc]

\* e.data.get(DATA_SOURCE) == mode, over self._async_current_entries()
Existing(current, mode) ==
    {i \in DOMAIN current : DictGet(current[i].data.d, DATA_SOURCE, None) = mode}

\* A plausible slip: a probe that returned false is not reported.
DiscoveryErrors_IgnoresNotFound(probe) ==
    CASE IsInstance(probe.raised, "TimeoutError") ->
            [escapes |-> FALSE, errors |-> BaseError(ERROR_MSG_CANNOT_CONNECT)]
      [] IsInstance(probe.raised, "OSError") ->
            [escapes |-> FALSE, errors |-> BaseError(ERROR_MSG_CANNOT_CONNECT)]
      [] probe.raised # "none" -> [escapes |-> TRUE, errors |-> NoErrors]
      [] OTHER -> [escapes |-> FALSE, errors |-> NoErrors]

\* A plausible slip: the two error codes swapped.
DiscoveryErrors_Swapped(probe) ==
    CASE IsInstance(probe.raised, "TimeoutError") ->
            [escapes |-> FALSE, errors |-> BaseError(ERROR_MSG_NO_DEVICE_FOUND)]
      [] IsInstance(probe.raised, "OSError") ->
            [escapes |-> FALSE, errors |-> BaseError(ERROR_MSG_NO_DEVICE_FOUND)]
      [] probe.raised # "none" -> [escapes |-> TRUE, errors |-> NoErrors]
      [] ~probe.ret -> [escapes |-> FALSE, errors |-> BaseError(ERROR_MSG_CANNOT_CONNECT)]
      [] OTHER -> [escapes |-> FALSE, errors |-> NoErrors]

\* The try / except / else around the probe in async_step_user: the errors
\* dict, or the exception no except clause matches.
DiscoveryErrors(probe) ==
    CASE IsInstance(probe.raised, "TimeoutError") ->
            [escapes |-> FALSE, errors |-> BaseError(ERROR_MSG_CANNOT_CONNECT)]
      [] IsInstance(probe.raised, "OSError") ->
            [escapes |-> FALSE, errors |-> BaseError(ERROR_MSG_CANNOT_CONNECT)]
      [] probe.raised # "none" -> [escapes |-> TRUE, errors |-> NoErrors]
      [] ~probe.ret -> [escapes |-> FALSE, errors |-> BaseError(ERROR_MSG_NO_DEVICE_FOUND)]
      [] OTHER -> [escapes |-> FALSE, errors |-> NoErrors]

\* async_step_user: the result, the flow implementation it installs and
\* the probe it ran.
AsyncStepUser(user_input, current, body) ==
    IF user_input = None
    THEN [result |-> ShowForm("user", NoErrors), impl |-> "none",
          probed |-> FALSE, probe |-> NotProbed]
    ELSE IF user_input.d[DATA_SOURCE] = CloudStr
    THEN IF Existing(current, CloudStr) # {}
         THEN [result |-> Abort("single_instance_allowed"), impl |-> "none",
               probed |-> FALSE, probe |-> NotProbed]
         ELSE [result |-> StepAuth, impl |-> "TempestPkceImplementation",
               probed |-> FALSE, probe |-> NotProbed]
    ELSE IF Existing(current, LocalStr) # {}
         THEN [result |-> Abort("single_instance_allowed"), impl |-> "none",
               probed |-> FALSE, probe |-> NotProbed]
         ELSE LET probe == CanDiscoverDevices(body)
                  outcome == DiscoveryErrors(probe)
              IN  [result |-> IF outcome.escapes THEN Raised(probe.raised)
                              ELSE IF outcome.errors # NoErrors
                              THEN ShowForm("user", outcome.errors)
                              ELSE CreateEntry("Tempest Station (Local)", user_input),
                   impl |-> "none", probed |-> TRUE, probe |-> probe]

\* async_oauth_create_entry
AsyncOAuthCreateEntry(entryData) == CreateEntry("Tempest Station (Cloud)", entryData)

\* The data the host's OAuth2 machinery hands to async_oauth_create_entry.
OAuthEntryData(token) ==
    DictV([k \in {"auth_implementation", "token"} |->
              IF k = "token" THEN DictV(token) ELSE DOMAIN_])

UserInput(mode) == DictV([k \in {DATA_SOURCE} |-> mode])

\* "token" in entry.data
HasToken(entryData) == "token" \in DOMAIN entryData.d

(***************************************************************************)
(* SpecFlow: config flows run against the host's entry list.               *)
(***************************************************************************)
MaxFlows == 2

MaxEntries == 3

FlowIds == 1..MaxFlows

FlowResponses ==
    {Payload({"access_token", "expires_in", "token_type"}, StrV(<<"X">>), IntV(7200), BearerStr),
     Payload({"access_token", "expires_in"}, StrV(<<"Y">>), StrV(<<"7", "2", "0", "0">>), BearerStr),
     Payload({"access_token", "expires_in"}, StrV(<<"X">>), None, BearerStr)}

NewFlow == [step |-> "idle", flow_impl |-> "none"]

NoFlowCall ==
    [op |-> "none", flow |-> 0, input |-> None, probed |-> FALSE, probe |-> NotProbed,
     body |-> "none", preLen |-> 0, result |-> NoResult]

\* The host applies a handler's result to the flow and to the entry list.
StepAfter(result, step) ==
    CASE result.type = "form" -> result.step_id
      [] result.type = "external_step" -> result.step_id
      [] result.type \in {"abort", "create_entry"} -> "done"
      [] OTHER -> step

EntriesAfter(result, current) ==
    IF result.type = "create_entry"
    THEN Append(current, [entry_id |-> Len(current) + 1, title |-> result.title,
                          data |-> result.data])
    ELSE current

\* A new flow is started: async_step_user(None) shows the form.
FlowInit(f) ==
    /\ flows[f].step \in {"idle", "done"}
    /\ LET call == AsyncStepUser(None, entries, "none")
       IN  /\ flows' = [flows EXCEPT ![f] = [step |-> StepAfter(call.result, "idle"),
                                             flow_impl |-> call.impl]]
           /\ lastFlow' = [NoFlowCall EXCEPT !.op = "show", !.flow = f,
                                             !.preLen = Len(entries),
                                             !.result = call.result]
    /\ UNCHANGED entries

\* The user submits the form of step "user".
FlowSubmit(f, mode, body) ==
    /\ flows[f].step = "user"
    /\ LET call == AsyncStepUser(UserInput(mode), entries, body)
       IN  /\ call.result.type = "create_entry" => Len(entries) < MaxEntries
           /\ flows' = [flows EXCEPT ![f] = [step |-> StepAfter(call.result, flows[f].step),
                                             flow_impl |-> call.impl]]
           /\ entries' = EntriesAfter(call.result, entries)
           /\ lastFlow' = [op |-> "submit", flow |-> f, input |-> UserInput(mode),
                           probed |-> call.probed, probe |-> call.probe,
                           body |-> IF call.probed THEN body ELSE "none",
                           preLen |-> Len(entries), result |-> call.result]

\* The external step completes: the flow implementation resolves the
\* provider's response and the host calls async_oauth_create_entry.
FlowOAuthDone(f, payload) ==
    /\ flows[f].step = "auth"
    /\ Len(entries) < MaxEntries
    /\ LET token == ResolveExternalData(payload)
           result == IF token.exc # "none" THEN Raised(token.exc)
                     ELSE AsyncOAuthCreateEntry(OAuthEntryData(token.value))
       IN  /\ flows' = [flows EXCEPT ![f].step = StepAfter(result, "auth")]
           /\ entries' = EntriesAfter(result, entries)
           /\ lastFlow' = [NoFlowCall EXCEPT !.op = "oauth", !.flow = f,
                                             !.preLen = Len(entries),
                                             !.result = result]

(***************************************************************************)
(* WeatherFlowCloudDataUpdateCoordinator                                   *)
(***************************************************************************)
HttpUnauthorized == 401

Snapshots ==
    {[st \in {101} |-> <<1>>],
     [st \in {101} |-> <<2, 1>>],
     [st \in {101} |-> <<>>],
     [st \in {101, 202} |-> <<3>>]}

\* What get_all_data does: it returns a mapping station id -> payload, or raises.
ApiOutcomes ==
    {[exc |-> "none", status |-> 200, data |-> snap] : snap \in Snapshots}
    \cup {[exc |-> "ClientResponseError", status |-> st, data |-> EmptyDict] :
             st \in {401, 403, 500}}
    \cup {[exc |-> x, status |-> 0, data |-> EmptyDict] :
             x \in {"ClientConnectionError", "TimeoutError"}}

NoApiCall == [exc |-> "none", status |-> 0, data |-> EmptyDict]

\* The outcomes in which every station has an observation; the reads of an
\* empty observation list are those of SpecPull.
ObservedApiOutcomes ==
    {api \in ApiOutcomes : \A st \in DOMAIN api.data : api.data[st] # <<>>}

\* A plausible slip: every HTTP error reported as a generic update failure.
AsyncUpdateData_NoAuthBranch(api) ==
    CASE api.exc = "none" -> [raised |-> "none", data |-> api.data]
      [] IsInstance(api.exc, "ClientResponseError") ->
            [raised |-> "UpdateFailed", data |-> EmptyDict]
      [] OTHER -> [raised |-> api.exc, data |-> EmptyDict]

\* _async_update_data: the data returned, or the exception that leaves it.
AsyncUpdateData(api) ==
    CASE api.exc = "none" -> [raised |-> "none", data |-> api.data]
      [] IsInstance(api.exc, "ClientResponseError") ->
            [raised |-> IF api.status = HttpUnauthorized
                        THEN "ConfigEntryAuthFailed" ELSE "UpdateFailed",
             data |-> EmptyDict]
      [] OTHER -> [raised |-> api.exc, data |-> EmptyDict]

NoCoordinator ==
    [built |-> FALSE, fetched |-> FALSE, data |-> EmptyDict, last_update_success |-> FALSE]

\* The coordinator after a refresh: a successful fetch replaces its data, a
\* failed one leaves the data as it was.
CoordinatorAfter(coord, update) ==
    IF update.raised = "none"
    THEN [built |-> TRUE, fetched |-> TRUE, data |-> update.data, last_update_success |-> TRUE]
    ELSE [coord EXCEPT !.built = TRUE, !.last_update_success = FALSE]

\* async_config_entry_first_refresh: what a failed first refresh raises into setup.
FirstRefreshRaises(update) ==
    CASE update.raised = "none" -> "none"
      [] update.raised = "ConfigEntryAuthFailed" -> "ConfigEntryAuthFailed"
      [] OTHER -> "ConfigEntryNotReady"

(***************************************************************************)
(* The sensor description tables and their extractors: sensor.py.          *)
(***************************************************************************)
\* Raw values a device attribute holds besides None and plain numbers: a
\* quantity with a magnitude, an enum member with a name, a datetime.
Quantity(magnitude) == [t |-> "quantity", n |-> magnitude, s |-> <<>>, d |-> EmptyDict]

EnumV(name) == [t |-> "enum", n |-> 0, s |-> name, d |-> EmptyDict]

Datetime(epoch) == [t |-> "datetime", n |-> epoch, s |-> <<>>, d |-> EmptyDict]

\* The device events an entity can subscribe to.
EVENT_OBSERVATION == "observation"

EVENT_RAPID_WIND == "rapid_wind"

EVENT_STATUS_UPDATE == "status_update"

\* event_subscriptions: field(default_factory=lambda: [EVENT_OBSERVATION])
DefaultEventSubscriptions == <<EVENT_OBSERVATION>>

SensorDescription(key, conv, events) ==
    [key |-> key, raw_data_conv_fn |-> conv, event_subscriptions |-> events]

CloudSensorDescription(key, field, fn) ==
    [key |-> key, field |-> field, value_fn |-> fn]

\* A plausible slip: a description copied without renaming its key.
SENSORS_DuplicateKey ==
    <<
      SensorDescription("air_density", "magnitude", DefaultEventSubscriptions),
      SensorDescription("air_temperature", "magnitude", DefaultEventSubscriptions),
      SensorDescription("dew_point_temperature", "magnitude", DefaultEventSubscriptions),
      SensorDescription("feels_like_temperature", "magnitude", DefaultEventSubscriptions),
      SensorDescription("wet_bulb_temperature", "magnitude", DefaultEventSubscriptions),
      SensorDescription("battery", "magnitude", DefaultEventSubscriptions),
      SensorDescription("illuminance", "magnitude", DefaultEventSubscriptions),
      SensorDescription("lightning_strike_average_distance", "magnitude", DefaultEventSubscriptions),
      SensorDescription("lightning_strike_count", "identity", DefaultEventSubscriptions),
      SensorDescription("precipitation_type", "precipitation", DefaultEventSubscriptions),
      SensorDescription("rain_accumulation_previous_minute", "magnitude", DefaultEventSubscriptions),
      SensorDescription("rain_rate", "magnitude", DefaultEventSubscriptions),
      SensorDescription("relative_humidity", "magnitude", DefaultEventSubscriptions),
      SensorDescription("rssi", "magnitude", <<EVENT_STATUS_UPDATE>>),
      SensorDescription("station_pressure", "magnitude", DefaultEventSubscriptions),
      SensorDescription("solar_radiation", "magnitude", DefaultEventSubscriptions),
      SensorDescription("up_since", "identity", <<EVENT_STATUS_UPDATE>>),
      SensorDescription("uv", "identity", DefaultEventSubscriptions),
      SensorDescription("vapor_pressure", "magnitude", DefaultEventSubscriptions),
      SensorDescription("wind_gust", "magnitude", DefaultEventSubscriptions),
      SensorDescription("wind_lull", "magnitude", DefaultEventSubscriptions),
      SensorDescription("wind_speed", "magnitude", <<EVENT_RAPID_WIND, EVENT_OBSERVATION>>),
      SensorDescription("wind_speed", "magnitude", DefaultEventSubscriptions),
      SensorDescription("wind_direction", "magnitude", <<EVENT_RAPID_WIND, EVENT_OBSERVATION>>),
      SensorDescription("wind_direction_average", "magnitude", DefaultEventSubscriptions) >>

\* The push table.
SENSORS ==
    <<
      SensorDescription("air_density", "magnitude", DefaultEventSubscriptions),
      SensorDescription("air_temperature", "magnitude", DefaultEventSubscriptions),
      SensorDescription("dew_point_temperature", "magnitude", DefaultEventSubscriptions),
      SensorDescription("feels_like_temperature", "magnitude", DefaultEventSubscriptions),
      SensorDescription("wet_bulb_temperature", "magnitude", DefaultEventSubscriptions),
      SensorDescription("battery", "magnitude", DefaultEventSubscriptions),
      SensorDescription("illuminance", "magnitude", DefaultEventSubscriptions),
      SensorDescription("lightning_strike_average_distance", "magnitude", DefaultEventSubscriptions),
      SensorDescription("lightning_strike_count", "identity", DefaultEventSubscriptions),
      SensorDescription("precipitation_type", "precipitation", DefaultEventSubscriptions),
      SensorDescription("rain_accumulation_previous_minute", "magnitude", DefaultEventSubscriptions),
      SensorDescription("rain_rate", "magnitude", DefaultEventSubscriptions),
      SensorDescription("relative_humidity", "magnitude", DefaultEventSubscriptions),
      SensorDescription("rssi", "magnitude", <<EVENT_STATUS_UPDATE>>),
      SensorDescription("station_pressure", "magnitude", DefaultEventSubscriptions),
      SensorDescription("solar_radiation", "magnitude", DefaultEventSubscriptions),
      SensorDescription("up_since", "identity", <<EVENT_STATUS_UPDATE>>),
      SensorDescription("uv", "identity", DefaultEventSubscriptions),
      SensorDescription("vapor_pressure", "magnitude", DefaultEventSubscriptions),
      SensorDescription("wind_gust", "magnitude", DefaultEventSubscriptions),
      SensorDescription("wind_lull", "magnitude", DefaultEventSubscriptions),
      SensorDescription("wind_speed", "magnitude", <<EVENT_RAPID_WIND, EVENT_OBSERVATION>>),
      SensorDescription("wind_average", "magnitude", DefaultEventSubscriptions),
      SensorDescription("wind_direction", "magnitude", <<EVENT_RAPID_WIND, EVENT_OBSERVATION>>),
      SensorDescription("wind_direction_average", "magnitude", DefaultEventSubscriptions) >>

\* The pull table, WF_SENSORS in the source (a name that cannot start with WF_ here).
WFSensors ==
    <<
      CloudSensorDescription("air_density", "air_density", "attribute"),
      CloudSensorDescription("air_temperature", "air_temperature", "attribute"),
      CloudSensorDescription("station_pressure", "barometric_pressure", "attribute"),
      CloudSensorDescription("pressure_trend", "pressure_trend", "attribute"),
      CloudSensorDescription("brightness", "brightness", "attribute"),
      CloudSensorDescription("delta_t", "delta_t", "attribute"),
      CloudSensorDescription("dew_point", "dew_point", "attribute"),
      CloudSensorDescription("feels_like", "feels_like", "attribute"),
      CloudSensorDescription("heat_index", "heat_index", "attribute"),
      CloudSensorDescription("lightning_strike_count", "lightning_strike_count", "attribute"),
      CloudSensorDescription("lightning_strike_count_last_3hr", "lightning_strike_count_last_3hr", "attribute"),
      CloudSensorDescription("lightning_strike_last_distance", "lightning_strike_last_distance", "attribute"),
      CloudSensorDescription("lightning_strike_last_epoch", "lightning_strike_last_epoch", "datetime_or_none"),
      CloudSensorDescription("precip", "precip", "attribute"),
      CloudSensorDescription("precip_accum_local_day_final", "precip_accum_local_day_final", "attribute"),
      CloudSensorDescription("precip_accum_local_yesterday_final", "precip_accum_local_yesterday_final", "attribute"),
      CloudSensorDescription("precip_minutes_local_day", "precip_minutes_local_day", "attribute"),
      CloudSensorDescription("precip_minutes_local_yesterday", "precip_minutes_local_yesterday", "attribute"),
      CloudSensorDescription("relative_humidity", "relative_humidity", "attribute"),
      CloudSensorDescription("sea_level_pressure", "sea_level_pressure", "attribute"),
      CloudSensorDescription("solar_radiation", "solar_radiation", "attribute"),
      CloudSensorDescription("uv", "uv", "attribute"),
      CloudSensorDescription("timestamp", "timestamp", "datetime"),
      CloudSensorDescription("wet_bulb_temperature", "wet_bulb_temperature", "attribute"),
      CloudSensorDescription("wet_bulb_globe_temperature", "wet_bulb_globe_temperature", "attribute"),
      CloudSensorDescription("wind_avg", "wind_avg", "attribute"),
      CloudSensorDescription("wind_chill", "wind_chill", "attribute"),
      CloudSensorDescription("wind_direction", "wind_direction", "attribute"),
      CloudSensorDescription("wind_gust", "wind_gust", "attribute"),
      CloudSensorDescription("wind_lull", "wind_lull", "attribute") >>

\* str.lower() on one character.
LowerChar(c) ==
    CASE c = "A" -> "a" []
         c = "B" -> "b" []
         c = "C" -> "c" []
         c = "D" -> "d" []
         c = "E" -> "e" []
         c = "F" -> "f" []
         c = "G" -> "g" []
         c = "H" -> "h" []
         c = "I" -> "i" []
         c = "J" -> "j" []
         c = "K" -> "k" []
         c = "L" -> "l" []
         c = "M" -> "m" []
         c = "N" -> "n" []
         c = "O" -> "o" []
         c = "P" -> "p" []
         c = "Q" -> "q" []
         c = "R" -> "r" []
         c = "S" -> "s" []
         c = "T" -> "t" []
         c = "U" -> "u" []
         c = "V" -> "v" []
         c = "W" -> "w" []
         c = "X" -> "x" []
         c = "Y" -> "y" []
         c = "Z" -> "z"
      [] OTHER -> c

\* str.lower()
Lower(chars) == [i \in DOMAIN chars |-> LowerChar(chars[i])]

UnknownName == <<"u", "n", "k", "n", "o", "w", "n">>

\* A plausible slip: the name compared without lower-casing it.
PrecipitationRawConversionFn_CaseSensitive(raw_data) ==
    IF raw_data.s = UnknownName THEN None ELSE StrV(Lower(raw_data.s))

\* _precipitation_raw_conversion_fn
PrecipitationRawConversionFn(raw_data) ==
    IF Lower(raw_data.s) = UnknownName THEN None ELSE StrV(Lower(raw_data.s))

NotExtracted == [raised |-> "pending", value |-> None]

Returned(value) == [raised |-> "none", value |-> value]

\* raw_data_conv_fn of a push description applied to a raw value that is not
\* None: lambda d: d.magnitude, lambda d: d, or the precipitation conversion.
RawDataConvFn(description, raw_val) ==
    CASE description.raw_data_conv_fn = "magnitude" ->
            IF raw_val.t = "quantity"
            THEN Returned(IntV(raw_val.n))
            ELSE [raised |-> "AttributeError", value |-> None]
      [] description.raw_data_conv_fn = "identity" -> Returned(raw_val)
      [] description.raw_data_conv_fn = "precipitation" ->
            IF raw_val.t = "enum"
            THEN Returned(PrecipitationRawConversionFn(raw_val))
            ELSE [raised |-> "AttributeError", value |-> None]

\* getattr(device, key, None): a device is a mapping attribute -> raw value.
GetAttr(device, key) == IF key \in DOMAIN device THEN device[key] ELSE None

\* WeatherFlowSensorEntityDescription.get_native_value
GetNativeValue(description, device) ==
    LET raw_val == GetAttr(device, description.key)
    IN  IF raw_val = None THEN Returned(None) ELSE RawDataConvFn(description, raw_val)

\* value_fn of a pull description applied to an observation record, a mapping
\* field -> value in which every field is present and may be None.
ValueFn(description, observation) ==
    LET field == observation[description.field]
    IN  CASE description.value_fn = "attribute" -> Returned(field)
          [] description.value_fn = "datetime_or_none" ->
                IF field # None THEN Returned(Datetime(field.n)) ELSE Returned(None)
          [] description.value_fn = "datetime" ->
                IF field = None
                THEN [raised |-> "TypeError", value |-> None]
                ELSE Returned(Datetime(field.n))

\* The raw values of the right type for a push description's attribute.
PrecipitationNames ==
    {<<"N", "O", "N", "E">>, <<"R", "A", "I", "N">>, <<"H", "A", "I", "L">>,
     <<"R", "A", "I", "N", "_", "H", "A", "I", "L">>,
     <<"U", "N", "K", "N", "O", "W", "N">>,
     <<"R", "a", "i", "n">>, <<"U", "n", "k", "n", "o", "w", "n">>,
     <<"u", "n", "k", "n", "o", "w", "n">>}

RawValues(description) ==
    CASE description.raw_data_conv_fn = "magnitude" -> {Quantity(0), Quantity(21)}
      [] description.raw_data_conv_fn = "identity" -> {IntV(0), IntV(5), Datetime(1700000000)}
      [] description.raw_data_conv_fn = "precipitation" ->
            {EnumV(name) : name \in PrecipitationNames}

\* Devices holding one attribute, or none: the attribute is missing, None or set.
DevicesFor(description) ==
    {EmptyDict} \cup
    {[k \in {description.key} |-> v] : v \in {None} \cup RawValues(description)}

\* Observation records holding the field a pull description reads.
ObservationsFor(description) ==
    {[f \in {description.field} |-> v] : v \in {None, IntV(0), IntV(1700000000)}}

(***************************************************************************)
(* The lifecycle hooks: __init__.py and the sensor platform's setup.       *)
(***************************************************************************)
Serials == {"abc", "xyz"}

NoListener ==
    [built |-> FALSE, running |-> FALSE, devices |-> {}, loaded |-> {}, stops |-> 0]

NoPlatform ==
    [path |-> "none", subscribed |-> FALSE, stations |-> {}, entities |-> {}]

\* A plausible slip: the mode read from the data_source field.
SetupTakesCloud_ByDataSource(entryData) ==
    DictGet(entryData.d, DATA_SOURCE, None) = CloudStr

\* async_setup_entry: if "token" in entry.data
SetupTakesCloud(entryData) == HasToken(entryData)

\* sensor.async_setup_entry: if "token" in entry.data
SensorTakesCloud(entryData) == HasToken(entryData)

\* async_unload_entry: "token" not in entry.data
UnloadTakesCloud(entryData) == ~("token" \notin DOMAIN entryData.d)

\* async_remove_config_entry_device: if "token" in config_entry.data
RemoveTakesCloud(entryData) == HasToken(entryData)

\* hass.data.setdefault(DOMAIN, {})[entry_id] = instance
Store(data, id, instance) ==
    [k \in DOMAIN data \cup {id} |-> IF k = id THEN instance ELSE data[k]]

\* A plausible slip: the integration's whole storage dropped on unload.
Pop_DropsAll(data, id) == EmptyDict

\* integration_data.pop(entry_id, None)
Pop(data, id) == [k \in DOMAIN data \ {id} |-> data[k]]

\* The attributes a device exposes: "abc" is a Tempest unit, which has every
\* attribute of the push table; "xyz" is an Air unit, which has no wind, rain
\* or light sensor.
AirKeys ==
    {"air_density", "air_temperature", "dew_point_temperature", "wet_bulb_temperature",
     "battery", "lightning_strike_average_distance", "lightning_strike_count",
     "relative_humidity", "rssi", "station_pressure", "up_since", "vapor_pressure"}

DeviceKeys(serial) ==
    IF serial = "abc" THEN {SENSORS[i].key : i \in DOMAIN SENSORS} ELSE AirKeys

\* A plausible slip: an entity built for every description of the table.
HasAttr_Always(serial, key) == key \in {SENSORS[i].key : i \in DOMAIN SENSORS}

\* hasattr(device, desc.key)
HasAttr(serial, key) == key \in DeviceKeys(serial)

\* _attr_unique_id = f"{id}_{key}": the pair of the two parts.
UniqueId(id, key) == <<id, key>>

\* async_add_sensor: the unique ids of the entities built for one device, in
\* table order.
LocalEntityIds(serial) ==
    LET exposed == SelectSeq(SENSORS, LAMBDA desc : HasAttr(serial, desc.key))
    IN  [i \in DOMAIN exposed |-> UniqueId(serial, exposed[i].key)]

\* The stations of coordinator.data in iteration order.
RECURSIVE StationOrder(_)
StationOrder(stations) ==
    IF stations = {} THEN <<>>
    ELSE LET first == CHOOSE s \in stations : \A o \in stations : s <= o
         IN  <<first>> \o StationOrder(stations \ {first})

\* The unique ids of the pull entities: for station in coordinator.data for
\* desc in the pull table.
RECURSIVE CloudEntityIds(_)
CloudEntityIds(order) ==
    IF order = <<>> THEN <<>>
    ELSE [i \in DOMAIN WFSensors |-> UniqueId(Head(order), WFSensors[i].key)]
         \o CloudEntityIds(Tail(order))

\* sensor.async_setup_entry: pull entities for the coordinator's stations,
\* or a subscription to the entry's dispatcher channel.
SensorSetup(entryData, coord) ==
    IF SensorTakesCloud(entryData)
    THEN [path |-> "cloud", subscribed |-> FALSE, stations |-> DOMAIN coord.data,
          entities |-> {}]
    ELSE [path |-> "local", subscribed |-> TRUE, stations |-> {}, entities |-> {}]

\* A device handed to the dispatcher: its serial, whether its load-complete
\* event has fired, and whether its listener has since been replaced.
Device(serial, loaded, stale) == [serial |-> serial, loaded |-> loaded, stale |-> stale]

\* A push entity group built by one async_add_sensor call, with the host
\* state it was built in.
EntitiesOf(device, hassState) ==
    [serial |-> device.serial, loaded |-> device.loaded, stale |-> device.stale,
     built_in |-> hassState]

\* A plausible slip: the dispatch made at once, whatever the host's state.
AtStartedRunsNow_Always(hassState) == hassState \in {"not_running", "running", "stopping"}

\* async_at_started: the callback runs at once iff the host is running, and
\* otherwise waits for the host's started event.
AtStartedRunsNow(hassState) == hassState = "running"

\* async_dispatcher_send on an entry's channel: async_add_sensor runs for every
\* device sent iff the sensor platform is subscribed; with no subscriber the
\* devices are dropped.
Dispatch(plat, devices, hassState) ==
    IF plat.subscribed
    THEN [plat EXCEPT !.entities = @ \cup {EntitiesOf(device, hassState) : device \in devices}]
    ELSE plat

\* The entity lists the dispatch of some devices hands to async_add_entities.
DispatchCreates(plat, devices) ==
    IF plat.subscribed THEN {LocalEntityIds(device.serial) : device \in devices} ELSE {}

\* No read of a pull entity: the station and description read, the hook call
\* before the read, and the value read.
NoRead == [station |-> 0, index |-> 0, prev |-> "none", value |-> None]

\* The serials of the devices a dispatch hands to async_add_sensor.
Delivered(plat, devices) ==
    IF plat.subscribed THEN {device.serial : device \in devices} ELSE {}

NoHookCall ==
    [hook |-> "none", entry |-> 0, path |-> "none", api |-> NoApiCall,
     raised |-> "none", surfaced |-> "none", ret |-> "none", before |-> NoCoordinator,
     stops |-> 0, slots |-> EmptyDict, listener |-> NoListener,
     identifiers |-> {}, created |-> {}, delivered |-> {}, read |-> NoRead]

\* The call record of a hook for entry e.
HookCall(hook, e, path) ==
    [NoHookCall EXCEPT !.hook = hook, !.entry = e, !.path = path, !.slots = hassData]

\* The host's state of an entry whose setup raised or returned false.
StateAfterFailure(surfaced) ==
    IF surfaced = "ConfigEntryNotReady" THEN "setup_retry" ELSE "setup_error"

\* async_setup_entry for a cloud entry.
SetupCloud(e, available, api) ==
    /\ SetupTakesCloud(entries[e].data)
    /\ IF ~available
       THEN /\ api = NoApiCall
            /\ entryState' = [entryState EXCEPT ![e] = "setup_error"]
            /\ lastHook' = [HookCall("setup", e, "cloud") EXCEPT !.ret = "false"]
            /\ UNCHANGED <<hassData, coordinators, platform>>
       ELSE /\ api \in ApiOutcomes
            /\ LET update == AsyncUpdateData(api)
                   failure == FirstRefreshRaises(update)
                   coord == CoordinatorAfter(NoCoordinator, update)
               IN  IF failure # "none"
                   THEN /\ entryState' = [entryState EXCEPT ![e] = StateAfterFailure(failure)]
                        /\ lastHook' = [HookCall("setup", e, "cloud") EXCEPT
                                            !.api = api, !.raised = update.raised,
                                            !.surfaced = failure]
                        /\ UNCHANGED <<hassData, coordinators, platform>>
                   ELSE /\ coordinators' = [coordinators EXCEPT ![e] = coord]
                        /\ hassData' = Store(hassData, e, "coordinator")
                        /\ platform' = [platform EXCEPT ![e] =
                                            SensorSetup(entries[e].data, coord)]
                        /\ entryState' = [entryState EXCEPT ![e] = "loaded"]
                        /\ lastHook' = [HookCall("setup", e, "cloud") EXCEPT
                                            !.api = api, !.ret = "true",
                                            !.created = {CloudEntityIds(
                                                StationOrder(DOMAIN coord.data))}]
    /\ UNCHANGED <<listeners, pending, hass>>

\* What client.start_listening() does: it returns, or raises a ListenerError.
ListenOutcomes == {"none", "ListenerError"}

\* A plausible slip: the listener error left to escape setup as it is.
StartListeningSurfaces_Uncaught(exc) == exc

\* try: await client.start_listening() / except ListenerError: raise ConfigEntryNotReady
StartListeningSurfaces(exc) ==
    IF IsInstance(exc, "ListenerError") THEN "ConfigEntryNotReady" ELSE exc

\* The deferred dispatches of the entry's earlier listeners, whose devices are
\* not devices of the listener now built.
Superseded(waiting, e) ==
    {IF w.entry = e THEN [w EXCEPT !.device.stale = TRUE] ELSE w : w \in waiting}

\* async_setup_entry for a local entry, up to the forwarding of the platforms:
\* the listener is built and started, and stored once it listens.
SetupLocalStart(e, listen) ==
    /\ ~SetupTakesCloud(entries[e].data)
    /\ pending' = Superseded(pending, e)
    /\ LET surfaced == StartListeningSurfaces(listen)
       IN  IF surfaced # "none"
           THEN /\ listeners' = [listeners EXCEPT ![e] = [NoListener EXCEPT !.built = TRUE]]
                /\ entryState' = [entryState EXCEPT ![e] = StateAfterFailure(surfaced)]
                /\ lastHook' = [HookCall("setup", e, "local") EXCEPT
                                    !.raised = listen, !.surfaced = surfaced]
                /\ UNCHANGED hassData
           ELSE /\ listeners' = [listeners EXCEPT ![e] =
                                    [NoListener EXCEPT !.built = TRUE, !.running = TRUE]]
                /\ hassData' = Store(hassData, e, "listener")
                /\ entryState' = [entryState EXCEPT ![e] = "setup_in_progress"]
                /\ lastHook' = HookCall("setup_start", e, "local")
    /\ UNCHANGED <<coordinators, platform, hass>>

\* The rest of async_setup_entry for a local entry: the sensor platform
\* subscribes to the entry's channel, the stop handler is registered, and
\* setup returns true.
SetupLocalFinish(e) ==
    /\ entryState[e] = "setup_in_progress"
    /\ platform' = [platform EXCEPT ![e] = SensorSetup(entries[e].data, NoCoordinator)]
    /\ entryState' = [entryState EXCEPT ![e] = "loaded"]
    /\ lastHook' = [HookCall("setup", e, "local") EXCEPT !.ret = "true"]
    /\ UNCHANGED <<hassData, listeners, coordinators, pending, hass>>
    /\ UNCHANGED <<normVars, flowVars, pureVars>>

\* The host sets up an entry that is not loaded.
SetupEntry(e) ==
    /\ entryState[e] \in {"not_loaded", "setup_retry", "setup_error"}
    /\ \/ \E available \in BOOLEAN, api \in ObservedApiOutcomes \cup {NoApiCall} :
             SetupCloud(e, available, api)
       \/ \E listen \in ListenOutcomes : SetupLocalStart(e, listen)
    /\ UNCHANGED <<normVars, flowVars, pureVars>>

\* A plausible slip: stop called on whatever instance the slot held.
UnloadStops_AnyInstance(client_or_coord, entryData) == client_or_coord # "None"

\* A plausible slip: stop called for a local entry without looking at what
\* the slot held.
UnloadStops_LocalAlways(client_or_coord, entryData) == ~UnloadTakesCloud(entryData)

\* if client_or_coord and "token" not in entry.data
UnloadStops(client_or_coord, entryData) ==
    client_or_coord # "None" /\ ~UnloadTakesCloud(entryData)

\* The listener after an awaited stop_listening().
Stopped(listener) == [listener EXCEPT !.running = FALSE, !.stops = @ + 1]

\* async_unload_entry, called for a loaded entry or for one whose setup
\* failed, and the host dropping what the entry registered.
UnloadEntry(e, unload_ok) ==
    /\ entryState[e] \in {"loaded", "setup_retry", "setup_error"}
    /\ IF unload_ok
       THEN LET client_or_coord == DictGet(hassData, e, "None")
                stops == UnloadStops(client_or_coord, entries[e].data)
            IN  /\ hassData' = Pop(hassData, e)
                /\ listeners' = [listeners EXCEPT ![e] =
                                    IF stops THEN Stopped(listeners[e]) ELSE listeners[e]]
                /\ coordinators' = [coordinators EXCEPT ![e] = NoCoordinator]
                /\ platform' = [platform EXCEPT ![e] = NoPlatform]
                /\ entryState' = [entryState EXCEPT ![e] = "not_loaded"]
                /\ lastHook' = [HookCall("unload", e,
                                         IF UnloadTakesCloud(entries[e].data)
                                         THEN "cloud" ELSE "local") EXCEPT
                                    !.ret = "true", !.listener = listeners[e],
                                    !.stops = IF stops THEN 1 ELSE 0]
       ELSE /\ entryState' = [entryState EXCEPT ![e] =
                                 IF entryState[e] = "loaded" THEN "failed_unload" ELSE @]
            /\ lastHook' = [HookCall("unload", e, "none") EXCEPT
                                !.ret = "false", !.listener = listeners[e]]
            /\ UNCHANGED <<hassData, listeners, coordinators, platform>>
    /\ UNCHANGED <<pending, hass>>
    /\ UNCHANGED <<normVars, flowVars, pureVars>>

\* A plausible slip: the serial compared without looking at the domain.
NoDeviceMatches_AnyDomain(identifiers, devices) ==
    ~ \E identifier \in identifiers, device \in devices : device = identifier[2]

\* not any(identifier[0] == DOMAIN and device.serial_number == identifier[1] ...)
NoDeviceMatches(identifiers, devices) ==
    ~ \E identifier \in identifiers, device \in devices :
          identifier[1] = DOMAIN_ /\ device = identifier[2]

OtherDomain == StrV(<<"h", "u", "e">>)

Identifiers == {DOMAIN_, OtherDomain} \X Serials

\* The identifier sets of the device records the host asks about.
IdentifierSets ==
    {{}} \cup {{identifier} : identifier \in Identifiers}
    \cup {{<<OtherDomain, "abc">>, <<DOMAIN_, "xyz">>}}

\* async_remove_config_entry_device
RemoveConfigEntryDevice(e, identifiers) ==
    /\ entryState[e] = "loaded"
    /\ lastHook' =
          IF RemoveTakesCloud(entries[e].data)
          THEN [HookCall("remove_device", e, "cloud") EXCEPT
                   !.identifiers = identifiers, !.ret = "true"]
          ELSE [HookCall("remove_device", e, "local") EXCEPT
                   !.identifiers = identifiers,
                   !.ret = IF NoDeviceMatches(identifiers, listeners[e].devices)
                           THEN "true" ELSE "false"]
    /\ UNCHANGED <<hassData, listeners, coordinators, entryState, platform, pending, hass>>
    /\ UNCHANGED <<normVars, flowVars, pureVars>>

\* The running listener of a local entry discovers a device.
DeviceDiscovered(e, serial) ==
    /\ listeners[e].running
    /\ serial \notin listeners[e].devices
    /\ listeners' = [listeners EXCEPT ![e].devices = @ \cup {serial}]
    /\ lastHook' = HookCall("discovered", e, "none")
    /\ UNCHANGED <<hassData, coordinators, entryState, platform, pending, hass>>
    /\ UNCHANGED <<normVars, flowVars, pureVars>>

\* A discovered device fires its load-complete event: _async_add_device hands
\* the dispatch on the entry's channel to async_at_started.
DeviceLoadComplete(e, serial) ==
    /\ listeners[e].running
    /\ serial \in listeners[e].devices \ listeners[e].loaded
    /\ listeners' = [listeners EXCEPT ![e].loaded = @ \cup {serial}]
    /\ LET device == Device(serial, TRUE, FALSE)
       IN  IF AtStartedRunsNow(hass)
           THEN /\ platform' = [platform EXCEPT ![e] = Dispatch(platform[e], {device}, hass)]
                /\ lastHook' = [HookCall("load_complete", e, "none") EXCEPT
                                    !.created = DispatchCreates(platform[e], {device}),
                                    !.delivered = Delivered(platform[e], {device})]
                /\ UNCHANGED pending
           ELSE /\ pending' = pending \cup {[entry |-> e, device |-> device]}
                /\ lastHook' = HookCall("load_complete", e, "none")
                /\ UNCHANGED platform
    /\ UNCHANGED <<hassData, coordinators, entryState, hass>>
    /\ UNCHANGED <<normVars, flowVars, pureVars>>

\* The devices waiting for the host's start that were bound to entry e's channel.
WaitingFor(e) == {w.device : w \in {p \in pending : p.entry = e}}

\* The host finishes starting: every callback handed to async_at_started runs.
HassStarted ==
    /\ hass = "not_running"
    /\ hass' = "running"
    /\ platform' = [e \in DOMAIN platform |-> Dispatch(platform[e], WaitingFor(e), "running")]
    /\ pending' = {}
    /\ lastHook' = [NoHookCall EXCEPT
                       !.hook = "started", !.slots = hassData,
                       !.created = UNION {DispatchCreates(platform[e], WaitingFor(e)) :
                                             e \in DOMAIN platform},
                       !.delivered = UNION {Delivered(platform[e], WaitingFor(e)) :
                                               e \in DOMAIN platform}]
    /\ UNCHANGED <<hassData, listeners, coordinators, entryState>>
    /\ UNCHANGED <<normVars, flowVars, pureVars>>

\* The host's stop event.  The handler registered for it is the plain function
\* lambda event: client.stop_listening(): the coroutine it makes is never
\* awaited, so the listener keeps running.
HassStop ==
    /\ hass = "running"
    /\ hass' = "stopping"
    /\ lastHook' = [NoHookCall EXCEPT !.hook = "stop", !.slots = hassData]
    /\ UNCHANGED <<hassData, listeners, coordinators, entryState, platform, pending>>
    /\ UNCHANGED <<normVars, flowVars, pureVars>>

\* The coordinator's periodic refresh of a loaded cloud entry.
Refresh(e, api) ==
    /\ entryState[e] = "loaded"
    /\ coordinators[e].built
    /\ LET update == AsyncUpdateData(api)
       IN  /\ coordinators' = [coordinators EXCEPT ![e] =
                                  CoordinatorAfter(coordinators[e], update)]
           /\ lastHook' = [HookCall("refresh", e, "cloud") EXCEPT
                              !.api = api, !.raised = update.raised,
                              !.surfaced = update.raised, !.before = coordinators[e]]
    /\ UNCHANGED <<hassData, listeners, entryState, platform, pending, hass>>
    /\ UNCHANGED <<normVars, flowVars, pureVars>>

\* The observation record numbered n of a station's payload: every field the
\* pull table reads holds n.
ObservationRecord(n) == [f \in {WFSensors[i].field : i \in DOMAIN WFSensors} |-> IntV(n)]

\* self.station: the coordinator's cached payload for the bound station.
Station(coord, station_id) == coord.data[station_id]

\* A plausible slip: the last record of the list taken for the newest.
NativeValue_LastRecord(coord, station_id, description) ==
    IF station_id \notin DOMAIN coord.data
    THEN [raised |-> "KeyError", value |-> None]
    ELSE LET obs == Station(coord, station_id)
         IN  IF obs = <<>>
             THEN [raised |-> "IndexError", value |-> None]
             ELSE ValueFn(description, ObservationRecord(obs[Len(obs)]))

\* WeatherFlowCloudSensor.native_value: value_fn(obs[0])
NativeValue(coord, station_id, description) ==
    IF station_id \notin DOMAIN coord.data
    THEN [raised |-> "KeyError", value |-> None]
    ELSE LET obs == Station(coord, station_id)
         IN  IF obs = <<>>
             THEN [raised |-> "IndexError", value |-> None]
             ELSE ValueFn(description, ObservationRecord(obs[1]))

\* The host reads the value of a pull entity of a loaded cloud entry.
ReadValue(e, station_id, i) ==
    /\ entryState[e] = "loaded"
    /\ platform[e].path = "cloud"
    /\ station_id \in platform[e].stations
    /\ LET got == NativeValue(coordinators[e], station_id, WFSensors[i])
       IN  lastHook' = [HookCall("read", e, "cloud") EXCEPT
                           !.raised = got.raised,
                           !.read = [station |-> station_id, index |-> i,
                                     prev |-> lastHook.hook, value |-> got.value]]
    /\ UNCHANGED <<hassData, listeners, coordinators, entryState, platform, pending, hass>>
    /\ UNCHANGED <<normVars, flowVars, pureVars>>

(***************************************************************************)
(* One extraction, and one push entity on its device.                      *)
(***************************************************************************)
NoExtraction ==
    [table |-> "none", index |-> 0, input |-> EmptyDict, result |-> NotExtracted]

\* The extractions to try: every description of either table, on every input
\* it can meet.
Extractions ==
    UNION {{[table |-> "push", index |-> i, input |-> device, result |-> NotExtracted] :
               device \in DevicesFor(SENSORS[i])} : i \in DOMAIN SENSORS}
    \cup
    UNION {{[table |-> "pull", index |-> i, input |-> observation, result |-> NotExtracted] :
               observation \in ObservationsFor(WFSensors[i])} : i \in DOMAIN WFSensors}

\* The description an extraction uses.
DescriptionOf(x) == IF x.table = "push" THEN SENSORS[x.index] ELSE WFSensors[x.index]

\* get_native_value on a device, or value_fn on an observation record.
Extract ==
    /\ extraction.table # "none"
    /\ extraction.result = NotExtracted
    /\ extraction' = [extraction EXCEPT !.result =
                         IF extraction.table = "push"
                         THEN GetNativeValue(DescriptionOf(extraction), extraction.input)
                         ELSE ValueFn(DescriptionOf(extraction), extraction.input)]
    /\ UNCHANGED sensor

NoSensor ==
    [index |-> 0, device |-> EmptyDict, phase |-> "none", handlers |-> <<>>,
     native_value |-> None, available |-> FALSE,
     last |-> [event |-> "none", recomputes |-> 0]]

\* A plausible slip: only the first listed event subscribed to.
Subscribe_FirstOnly(event_subscriptions) == <<Head(event_subscriptions)>>

\* for evt in event_subscriptions: self.device.on(evt, ...): the handlers the
\* entity leaves on its device, one per listed event.
Subscribe(event_subscriptions) == event_subscriptions

\* _async_update_state
AsyncUpdateState(s) ==
    LET val == GetNativeValue(SENSORS[s.index], s.device).value
    IN  [s EXCEPT !.available = val # None, !.native_value = val]

\* The handlers of an entity that an event of its device calls.
Called(handlers, evt) == {i \in DOMAIN handlers : handlers[i] = evt}

DeviceEvents == {EVENT_OBSERVATION, EVENT_RAPID_WIND, EVENT_STATUS_UPDATE}

\* async_added_to_hass
AsyncAddedToHass ==
    /\ sensor.phase = "created"
    /\ sensor' = [AsyncUpdateState(sensor) EXCEPT
                     !.phase = "added",
                     !.handlers = Subscribe(SENSORS[sensor.index].event_subscriptions),
                     !.last = [event |-> "added", recomputes |-> 1]]
    /\ UNCHANGED extraction

\* The device takes a report and fires an event: every handler left on the
\* device for that event runs.
DeviceEvent(evt, device) ==
    /\ sensor.phase # "none"
    /\ LET reported == [sensor EXCEPT !.device = device]
           calls == Cardinality(Called(sensor.handlers, evt))
       IN  sensor' = [(IF calls > 0 THEN AsyncUpdateState(reported) ELSE reported) EXCEPT
                         !.last = [event |-> evt, recomputes |-> calls]]
    /\ UNCHANGED extraction

\* The entity is removed: the callbacks given to async_on_remove run.
EntityRemoved ==
    /\ sensor.phase = "added"
    /\ sensor' = [sensor EXCEPT !.phase = "removed", !.handlers = <<>>,
                                !.last = [event |-> "removed", recomputes |-> 0]]
    /\ UNCHANGED extraction

(***************************************************************************)
(* The specifications.                                                     *)
(***************************************************************************)
LocalEntry(id) ==
    [entry_id |-> id, title |-> "Tempest Station (Local)", data |-> UserInput(LocalStr)]

CloudEntry(id, access) ==
    [entry_id |-> id, title |-> "Tempest Station (Cloud)",
     data |-> OAuthEntryData(ResolveExternalData(
                  Payload({"access_token", "expires_in"}, access, IntV(7200), BearerStr)).value)]

\* Entry lists the config flow leaves behind.
LifeEntryLists ==
    {<<LocalEntry(1), CloudEntry(2, StrV(<<"X">>))>>,
     <<CloudEntry(1, StrV(<<"X">>)), CloudEntry(2, StrV(<<"Y">>))>>}

NormIdle == raw = EmptyDict /\ resolved = Pending

FlowIdle == flows = <<>> /\ lastFlow = NoFlowCall

LifeIdle ==
    /\ hassData = EmptyDict
    /\ listeners = <<>>
    /\ coordinators = <<>>
    /\ entryState = <<>>
    /\ platform = <<>>
    /\ pending = {}
    /\ hass = "not_running"
    /\ lastHook = NoHookCall

PureIdle == extraction = NoExtraction /\ sensor = NoSensor

\* SpecNorm
InitNorm ==
    /\ raw \in ProviderResponses
    /\ resolved = Pending
    /\ entries = <<>>
    /\ FlowIdle
    /\ LifeIdle
    /\ PureIdle

Resolve ==
    /\ resolved = Pending
    /\ resolved' = ResolveExternalData(raw)
    /\ UNCHANGED <<raw, flowVars, lifeVars, pureVars>>

NextNorm == Resolve

SpecNorm == InitNorm /\ [][NextNorm]_vars

\* SpecFlow
InitFlow ==
    /\ NormIdle
    /\ entries = <<>>
    /\ flows = [f \in FlowIds |-> NewFlow]
    /\ lastFlow = NoFlowCall
    /\ LifeIdle
    /\ PureIdle

NextFlow ==
    \/ \E f \in FlowIds : FlowInit(f) /\ UNCHANGED <<normVars, lifeVars, pureVars>>
    \/ \E f \in FlowIds, mode \in DATA_SOURCE_OPTIONS, body \in ProbeBodies :
          FlowSubmit(f, mode, body) /\ UNCHANGED <<normVars, lifeVars, pureVars>>
    \/ \E f \in FlowIds, payload \in FlowResponses :
          FlowOAuthDone(f, payload) /\ UNCHANGED <<normVars, lifeVars, pureVars>>

SpecFlow == InitFlow /\ [][NextFlow]_vars

\* SpecLife
InitLife ==
    /\ NormIdle
    /\ entries \in LifeEntryLists
    /\ FlowIdle
    /\ hassData = EmptyDict
    /\ listeners = [e \in DOMAIN entries |-> NoListener]
    /\ coordinators = [e \in DOMAIN entries |-> NoCoordinator]
    /\ entryState = [e \in DOMAIN entries |-> "not_loaded"]
    /\ platform = [e \in DOMAIN entries |-> NoPlatform]
    /\ pending = {}
    /\ hass = "not_running"
    /\ lastHook = NoHookCall
    /\ PureIdle

NextLife ==
    \/ \E e \in DOMAIN entries : SetupEntry(e)
    \/ \E e \in DOMAIN entries : SetupLocalFinish(e)
    \/ \E e \in DOMAIN entries, unload_ok \in BOOLEAN : UnloadEntry(e, unload_ok)
    \/ \E e \in DOMAIN entries, identifiers \in IdentifierSets :
          RemoveConfigEntryDevice(e, identifiers)
    \/ \E e \in DOMAIN entries, serial \in Serials : DeviceDiscovered(e, serial)
    \/ \E e \in DOMAIN entries, serial \in Serials : DeviceLoadComplete(e, serial)
    \/ HassStarted
    \/ HassStop
    \/ \E e \in DOMAIN entries, api \in ObservedApiOutcomes : Refresh(e, api)

SpecLife == InitLife /\ [][NextLife]_vars

\* SpecPull: one cloud entry, its coordinator and the reads of its entities.
InitPull ==
    /\ NormIdle
    /\ entries = <<CloudEntry(1, StrV(<<"X">>))>>
    /\ FlowIdle
    /\ hassData = EmptyDict
    /\ listeners = [e \in DOMAIN entries |-> NoListener]
    /\ coordinators = [e \in DOMAIN entries |-> NoCoordinator]
    /\ entryState = [e \in DOMAIN entries |-> "not_loaded"]
    /\ platform = [e \in DOMAIN entries |-> NoPlatform]
    /\ pending = {}
    /\ hass = "running"
    /\ lastHook = NoHookCall
    /\ PureIdle

NextPull ==
    \/ \E e \in DOMAIN entries, available \in BOOLEAN, api \in ApiOutcomes \cup {NoApiCall} :
          /\ entryState[e] \in {"not_loaded", "setup_retry", "setup_error"}
          /\ SetupCloud(e, available, api)
          /\ UNCHANGED <<normVars, flowVars, pureVars>>
    \/ \E e \in DOMAIN entries, api \in ApiOutcomes : Refresh(e, api)
    \/ \E e \in DOMAIN entries, station_id \in {101, 202}, i \in DOMAIN WFSensors :
          ReadValue(e, station_id, i)
    \/ \E e \in DOMAIN entries, unload_ok \in BOOLEAN : UnloadEntry(e, unload_ok)

SpecPull == InitPull /\ [][NextPull]_vars

\* SpecExtract
InitExtract ==
    /\ NormIdle
    /\ entries = <<>>
    /\ FlowIdle
    /\ LifeIdle
    /\ extraction \in Extractions
    /\ sensor = NoSensor

NextExtract == Extract /\ UNCHANGED <<normVars, flowVars, lifeVars>>

SpecExtract == InitExtract /\ [][NextExtract]_vars

\* SpecEntity
InitEntity ==
    /\ NormIdle
    /\ entries = <<>>
    /\ FlowIdle
    /\ LifeIdle
    /\ extraction = NoExtraction
    /\ \E i \in DOMAIN SENSORS : \E device \in DevicesFor(SENSORS[i]) :
          sensor = [NoSensor EXCEPT !.index = i, !.device = device, !.phase = "created"]

NextEntity ==
    \/ AsyncAddedToHass /\ UNCHANGED <<normVars, flowVars, lifeVars>>
    \/ \E evt \in DeviceEvents, device \in DevicesFor(SENSORS[sensor.index]) :
          DeviceEvent(evt, device) /\ UNCHANGED <<normVars, flowVars, lifeVars>>
    \/ EntityRemoved /\ UNCHANGED <<normVars, flowVars, lifeVars>>

SpecEntity == InitEntity /\ [][NextEntity]_vars

(***************************************************************************)
(* Properties of the config flow (SpecFlow).                               *)
(***************************************************************************)
\* The entries that existed before the last handler call.
EntriesBefore == SubSeq(entries, 1, lastFlow.preLen)

SubmittedMode == lastFlow.input.d[DATA_SOURCE]

\* An entry of the submitted mode existed: a cloud entry is one whose data
\* holds a token, a local entry one whose data holds none.
ModeExisted ==
    \E i \in DOMAIN EntriesBefore :
        (SubmittedMode = CloudStr) <=> ("token" \in DOMAIN EntriesBefore[i].data.d)

\* C1: after any sequence of flow runs at most one local entry (no token key)
\* and at most one cloud entry (token key) exist.
C1_AtMostOneEntryPerMode ==
    /\ Cardinality({i \in DOMAIN entries : "token" \notin DOMAIN entries[i].data.d}) <= 1
    /\ Cardinality({i \in DOMAIN entries : "token" \in DOMAIN entries[i].data.d}) <= 1

\* C2: a submission aborts with single_instance_allowed exactly when an entry
\* of the submitted mode exists; the abort runs no probe, creates no entry and
\* does not enter the auth step; a cloud submission without a cloud entry
\* installs the PKCE implementation and goes to the auth step.
C2_AbortExactlyWhenModeExists ==
    lastFlow.op = "submit" =>
        /\ (lastFlow.result.type = "abort"
               /\ lastFlow.result.reason = "single_instance_allowed") <=> ModeExisted
        /\ ModeExisted => /\ ~lastFlow.probed
                          /\ Len(entries) = lastFlow.preLen
                          /\ flows[lastFlow.flow].step # "auth"
        /\ (SubmittedMode = CloudStr /\ ~ModeExisted) =>
               /\ flows[lastFlow.flow].flow_impl = "TempestPkceImplementation"
               /\ flows[lastFlow.flow].step = "auth"

\* The wait of the last submission's probe ended without a discovery event.
ProbeSawNoDevice ==
    /\ lastFlow.op = "submit"
    /\ lastFlow.probed
    /\ lastFlow.body \in {"TimeoutError", "OSError"}

FormRedisplayed ==
    /\ lastFlow.result.type = "form"
    /\ lastFlow.result.step_id = "user"
    /\ DOMAIN lastFlow.result.errors = {"base"}
    /\ Len(entries) = lastFlow.preLen
    /\ flows[lastFlow.flow].step = "user"

ProbeReturnedFalse ==
    /\ lastFlow.op = "submit"
    /\ SubmittedMode = LocalStr
    /\ lastFlow.probed
    /\ lastFlow.probe.raised = "none"
    /\ ~lastFlow.probe.ret

C6_EveryProbeFailureRedisplaysForm ==
    (lastFlow.op = "submit" /\ lastFlow.probed /\ lastFlow.body # "found") =>
        /\ lastFlow.result.type = "form"
        /\ lastFlow.result.step_id = "user"
        /\ "base" \in DOMAIN lastFlow.result.errors

IsLocalCreate ==
    /\ lastFlow.result.type = "create_entry"
    /\ lastFlow.result.title = "Tempest Station (Local)"

\* C7: a local entry is created only by a submission whose own probe
\* succeeded, with the submitted input as its data, and every successful
\* probe creates one.
C7_LocalEntryOnlyAfterProbe ==
    /\ IsLocalCreate =>
          /\ lastFlow.op = "submit"
          /\ lastFlow.probed
          /\ lastFlow.body = "found"
          /\ lastFlow.probe = [raised |-> "none", ret |-> TRUE]
          /\ lastFlow.result.data = lastFlow.input
    /\ Len(entries) # lastFlow.preLen =>
          /\ lastFlow.result.type = "create_entry"
          /\ Len(entries) = lastFlow.preLen + 1
          /\ entries[Len(entries)].data = lastFlow.result.data
          /\ ("token" \notin DOMAIN entries[Len(entries)].data.d) => IsLocalCreate
    /\ (lastFlow.op = "submit" /\ lastFlow.probed /\ lastFlow.body = "found") =>
          /\ IsLocalCreate
          /\ Len(entries) = lastFlow.preLen + 1

C7_Witness ==
    /\ IsLocalCreate
    /\ lastFlow.preLen > 0
    /\ entries[Len(entries)].data = UserInput(LocalStr)

(***************************************************************************)
(* Properties of the token normalisation (SpecNorm).                       *)
(***************************************************************************)
ExpiresInGiven == DictGet(raw, "expires_in", IntV(3600))

\* C3 as stated: for every response the output carries the input's
\* access_token twice, the input's expires_in (3600 when absent) and the
\* input's token_type ("Bearer" when absent).
C3_NormalizationAsClaimed ==
    resolved # Pending =>
        /\ resolved.exc = "none"
        /\ resolved.value.access_token = DictGet(raw, "access_token", None)
        /\ resolved.value.refresh_token = DictGet(raw, "access_token", None)
        /\ resolved.value.expires_in = ExpiresInGiven
        /\ resolved.value.token_type = DictGet(raw, "token_type", BearerStr)

\* The digits of a string that is an unsigned integer literal between spaces.
IsDecimalString(chars) ==
    \E i \in 1..Len(chars) : \E j \in i..Len(chars) :
        /\ \A k \in 1..Len(chars) : IF k < i \/ k > j THEN chars[k] = " "
                                    ELSE chars[k] \in Digits

DecimalCore(chars) == SelectSeq(chars, LAMBDA c : c # " ")

RECURSIVE NatToChars(_)
NatToChars(n) ==
    LET last == CASE n % 10 = 0 -> "0" [] n % 10 = 1 -> "1" [] n % 10 = 2 -> "2"
                  [] n % 10 = 3 -> "3" [] n % 10 = 4 -> "4" [] n % 10 = 5 -> "5"
                  [] n % 10 = 6 -> "6" [] n % 10 = 7 -> "7" [] n % 10 = 8 -> "8"
                  [] OTHER -> "9"
    IN  IF n < 10 THEN <<last>> ELSE Append(NatToChars(n \div 10), last)

\* C3 amended: the output carries the input's access_token twice and the
\* input's token_type ("Bearer" when absent); expires_in is the integer the
\* input's expires_in converts to (an integer itself, a float truncated, a
\* decimal string parsed; 3600 when absent); an expires_in that is null or
\* not numeric makes the normalisation raise.
C3_Normalization ==
    resolved # Pending =>
        IF ExpiresInGiven.t = "none"
        THEN resolved.exc = "TypeError"
        ELSE IF ExpiresInGiven.t = "str" /\ ~IsDecimalString(ExpiresInGiven.s)
        THEN resolved.exc = "ValueError"
        ELSE /\ resolved.exc = "none"
             /\ resolved.value.access_token = DictGet(raw, "access_token", None)
             /\ resolved.value.refresh_token = DictGet(raw, "access_token", None)
             /\ resolved.value.token_type = DictGet(raw, "token_type", BearerStr)
             /\ resolved.value.expires_in.t = "int"
             /\ ExpiresInGiven.t = "int" => resolved.value.expires_in = ExpiresInGiven
             /\ ExpiresInGiven.t = "float" =>
                    resolved.value.expires_in.n = ExpiresInGiven.n
             /\ ExpiresInGiven.t = "str" =>
                    NatToChars(resolved.value.expires_in.n) = DecimalCore(ExpiresInGiven.s)
             /\ "expires_in" \notin DOMAIN raw => resolved.value.expires_in.n = 3600

C3_Witness ==
    /\ resolved.exc = "none"
    /\ DOMAIN raw = {"access_token", "expires_in"}
    /\ raw["expires_in"].t = "str"
    /\ resolved.value = [access_token |-> StrV(<<"X">>), refresh_token |-> StrV(<<"X">>),
                         expires_in |-> IntV(7200), token_type |-> BearerStr]

(***************************************************************************)
(* Properties of the lifecycle hooks and the coordinator (SpecLife).       *)
(***************************************************************************)
TokenIn(e) == "token" \in DOMAIN entries[e].data.d

\* C8: setup, sensor-platform setup, unload and device removal take the cloud
\* path iff the entry's data holds a token; after a successful setup the slot
\* holds a coordinator for a cloud entry and a listener for a local one.
C8_ModeByTokenKey ==
    /\ lastHook.path # "none" => ((lastHook.path = "cloud") <=> TokenIn(lastHook.entry))
    /\ \A e \in DOMAIN entries :
          /\ platform[e].path # "none" => ((platform[e].path = "cloud") <=> TokenIn(e))
          /\ entryState[e] = "loaded" =>
                /\ e \in DOMAIN hassData
                /\ platform[e].path # "none"
                /\ hassData[e] = IF TokenIn(e) THEN "coordinator" ELSE "listener"
                /\ coordinators[e].built <=> TokenIn(e)
                /\ listeners[e].built <=> ~TokenIn(e)

C8_Witness ==
    \E c, l \in DOMAIN entries :
        /\ TokenIn(c) /\ ~TokenIn(l)
        /\ entryState[c] = "loaded" /\ entryState[l] = "loaded"
        /\ hassData[c] = "coordinator" /\ hassData[l] = "listener"
        /\ lastHook.hook = "remove_device"

ApiGave401 == lastHook.api.exc = "ClientResponseError" /\ lastHook.api.status = 401

\* C9: a refresh that receives HTTP 401 surfaces ConfigEntryAuthFailed, never
\* the generic update failure; as the first refresh it makes setup fail with it.
C9_UnauthorizedIsAuthFailed ==
    (lastHook.hook \in {"setup", "refresh"} /\ ApiGave401) =>
        /\ lastHook.raised = "ConfigEntryAuthFailed"
        /\ lastHook.surfaced = "ConfigEntryAuthFailed"
        /\ lastHook.hook = "setup" =>
              /\ entryState[lastHook.entry] # "loaded"
              /\ lastHook.entry \notin DOMAIN hassData

C9_Witness ==
    /\ lastHook.hook = "setup"
    /\ ApiGave401
    /\ lastHook.surfaced = "ConfigEntryAuthFailed"

\* C10: every refresh failure other than HTTP 401, HTTP-status-bearing or not,
\* leaves the update operation as UpdateFailed, and the data last fetched
\* stays as it was.
C10_OtherFailuresAreUpdateFailed ==
    (lastHook.hook \in {"setup", "refresh"} /\ lastHook.api.exc # "none" /\ ~ApiGave401) =>
        /\ lastHook.raised = "UpdateFailed"
        /\ lastHook.hook = "refresh" =>
              /\ coordinators[lastHook.entry].data = lastHook.before.data
              /\ coordinators[lastHook.entry].fetched = lastHook.before.fetched

\* The entry the last hook call was made for, and whether it is a cloud entry.
HookEntry == lastHook.entry

UnloadOfStored(instance) ==
    /\ lastHook.hook = "unload"
    /\ HookEntry \in DOMAIN lastHook.slots
    /\ lastHook.slots[HookEntry] = instance

\* C12 as claimed: every teardown of a local entry whose setup stored a
\* listener calls stop exactly once and removes the reference; every teardown
\* of a cloud entry removes the reference, returns true and calls no stop.
C12_EveryTeardownStopsAndRemoves ==
    /\ UnloadOfStored("listener") =>
          /\ HookEntry \notin DOMAIN hassData
          /\ lastHook.stops = 1
          /\ listeners[HookEntry].stops = 1
    /\ UnloadOfStored("coordinator") =>
          /\ HookEntry \notin DOMAIN hassData
          /\ lastHook.ret = "true"
          /\ lastHook.stops = 0

\* C12: a teardown whose platform unload succeeded has, for a local entry whose
\* setup stored a listener, called stop exactly once on that listener, whatever
\* host events came before it, and removed the reference; for a cloud entry it
\* has removed the reference and returned true; no teardown of a cloud entry
\* calls stop; a teardown whose platform unload failed returns false, calls no
\* stop and keeps the reference.
C12_SuccessfulTeardownStopsAndRemoves ==
    /\ (UnloadOfStored("listener") /\ lastHook.ret = "true") =>
          /\ HookEntry \notin DOMAIN hassData
          /\ lastHook.stops = 1
          /\ listeners[HookEntry].stops = 1
          /\ ~listeners[HookEntry].running
    /\ (UnloadOfStored("coordinator") /\ lastHook.ret = "true") =>
          HookEntry \notin DOMAIN hassData
    /\ UnloadOfStored("coordinator") => lastHook.stops = 0
    /\ (lastHook.hook = "unload" /\ HookEntry \in DOMAIN lastHook.slots
           /\ lastHook.ret # "true") =>
          /\ lastHook.ret = "false"
          /\ lastHook.stops = 0
          /\ HookEntry \in DOMAIN hassData
    /\ \A e \in DOMAIN entries : listeners[e].stops <= 1

C12_Witness ==
    /\ UnloadOfStored("listener")
    /\ lastHook.ret = "true"
    /\ hass = "stopping"
    /\ listeners[HookEntry].stops = 1

\* C13: a start_listening that fails with a listener error makes local setup
\* surface ConfigEntryNotReady with no slot stored and no platform set up, the
\* entry waiting for a retry as it waited for its first setup.
C13_ListenFailureIsNotReady ==
    (lastHook.hook = "setup" /\ lastHook.raised = "ListenerError") =>
        /\ lastHook.surfaced = "ConfigEntryNotReady"
        /\ entryState[HookEntry] = "setup_retry"
        /\ HookEntry \notin DOMAIN hassData
        /\ platform[HookEntry] = NoPlatform
        /\ coordinators[HookEntry] = NoCoordinator
        /\ ~listeners[HookEntry].running
        /\ listeners[HookEntry].devices = {}

C13_Witness ==
    /\ lastHook.hook = "setup"
    /\ lastHook.raised = "ListenerError"
    /\ entryState[HookEntry] = "setup_retry"

\* C14: every push entity was built for a device whose load-complete event had
\* fired, in a host that had finished starting; the pull entities of an entry
\* exist only with a coordinator whose first refresh succeeded.
C14_EntitiesOnlyOnReadyData ==
    \A e \in DOMAIN entries :
        /\ \A entity \in platform[e].entities :
              /\ entity.loaded
              /\ entity.built_in = "running"
              /\ hass \in {"running", "stopping"}
        /\ platform[e].path = "cloud" =>
              /\ coordinators[e].built
              /\ coordinators[e].fetched

C14_Witness ==
    /\ \E e \in DOMAIN entries : platform[e].entities # {}
    /\ \E e \in DOMAIN entries : platform[e].path = "cloud" /\ platform[e].stations # {}

\* C17: the keys of the push table are pairwise distinct, and so are the keys
\* of the pull table; hence the unique ids of the entities one call creates
\* for a device or for the stations of an entry are pairwise distinct.
C17_UniqueKeys ==
    /\ \A i, j \in DOMAIN SENSORS : i # j => SENSORS[i].key # SENSORS[j].key
    /\ \A i, j \in DOMAIN WFSensors : i # j => WFSensors[i].key # WFSensors[j].key
    /\ \A ids \in lastHook.created :
          \A i, j \in DOMAIN ids : i # j => ids[i] # ids[j]

C17_Witness ==
    /\ lastHook.hook = "load_complete"
    /\ \E ids \in lastHook.created : Len(ids) = Len(SENSORS)

\* C19: unload of an entry whose setup stored no reference returns the
\* platform-unload result without faulting, calls no stop and leaves the
\* storage without a slot for the entry.
C19_UnloadWithoutSlot ==
    (lastHook.hook = "unload" /\ HookEntry \notin DOMAIN lastHook.slots) =>
        /\ lastHook.ret \in {"true", "false"}
        /\ lastHook.raised = "none"
        /\ lastHook.stops = 0
        /\ listeners[HookEntry] = lastHook.listener
        /\ HookEntry \notin DOMAIN hassData

C19_Witness ==
    /\ lastHook.hook = "unload"
    /\ HookEntry \notin DOMAIN lastHook.slots
    /\ ~TokenIn(HookEntry)
    /\ lastHook.listener.built
    /\ lastHook.ret = "true"

\* The slot of entry e is as it was before the last hook call.
SlotKept(e) ==
    /\ e \in DOMAIN hassData <=> e \in DOMAIN lastHook.slots
    /\ e \in DOMAIN hassData => hassData[e] = lastHook.slots[e]

\* C20: a hook for entry E leaves the slot of every other entry as it was, and
\* only setup and unload change a slot at all; the slot of E is present exactly
\* when E's last setup succeeded and no unload with a successful platform
\* unload followed; an unload whose platform unload failed leaves the slot and
\* the listener as they were.
C20_SlotFrame ==
    /\ lastHook.hook # "none" =>
          \A e \in DOMAIN entries :
              (e # HookEntry \/ lastHook.hook \notin {"setup", "setup_start", "unload"})
                  => SlotKept(e)
    /\ \A e \in DOMAIN entries :
          /\ entryState[e] \in {"loaded", "failed_unload"} => e \in DOMAIN hassData
          /\ entryState[e] \in {"not_loaded", "setup_retry", "setup_error"}
                => e \notin DOMAIN hassData
    /\ (lastHook.hook = "unload" /\ lastHook.ret = "false") =>
          /\ SlotKept(HookEntry)
          /\ listeners[HookEntry] = lastHook.listener

C20_Witness ==
    /\ lastHook.hook = "unload"
    /\ lastHook.ret = "true"
    /\ HookEntry \in DOMAIN lastHook.slots
    /\ \E e \in DOMAIN entries : e # HookEntry /\ e \in DOMAIN hassData

\* The ids are those of one entity for each description whose key the device
\* of that serial exposes, and of no other entity.
OnePerExposedKey(ids, serial) ==
    /\ \A i \in DOMAIN SENSORS :
          Cardinality({j \in DOMAIN ids : ids[j] = <<serial, SENSORS[i].key>>})
              = IF SENSORS[i].key \in DeviceKeys(serial) THEN 1 ELSE 0
    /\ \A j \in DOMAIN ids : \E i \in DOMAIN SENSORS : ids[j] = <<serial, SENSORS[i].key>>

\* C22: for each device delivered on an entry's channel the registration builds
\* exactly one entity for each description whose key the device exposes and
\* none for any other description, so that devices exposing different
\* attributes get different entities.
C22_OneEntityPerExposedKey ==
    lastHook.hook \in {"load_complete", "started"} =>
        /\ \A serial \in lastHook.delivered :
              \E ids \in lastHook.created : OnePerExposedKey(ids, serial)
        /\ \A ids \in lastHook.created :
              \E serial \in lastHook.delivered : OnePerExposedKey(ids, serial)
        /\ Cardinality(lastHook.created) = Cardinality(lastHook.delivered)

C22_Witness ==
    /\ lastHook.hook = "started"
    /\ lastHook.delivered = {"abc", "xyz"}
    /\ \E ids \in lastHook.created : Len(ids) = Cardinality(AirKeys)
    /\ \E ids \in lastHook.created : Len(ids) = Len(SENSORS)

\* The push entities of entry e built for the device of that serial of the
\* entry's present listener.
EntitiesFor(e, serial) ==
    {entity \in platform[e].entities : entity.serial = serial /\ ~entity.stale}

\* C24: no discovered device is lost: once a local entry is set up and the
\* host has started, every device of its listener whose load-complete event
\* has fired has its push entities registered, whenever the events came.
C24_NoLoadedDeviceLost ==
    \A e \in DOMAIN entries :
        (entryState[e] = "loaded" /\ hass = "running") =>
            \A serial \in listeners[e].loaded : EntitiesFor(e, serial) # {}

\* C25: no device of an unloaded listener is turned into entities by the
\* sensor registration of a later setup of the entry.
C25_NoStaleDeviceRegistered ==
    \A e \in DOMAIN entries : \A entity \in platform[e].entities : ~entity.stale

(***************************************************************************)
(* Properties of the push entity (SpecEntity).                             *)
(***************************************************************************)
\* The events the entity's description lists.
Listed == {SENSORS[sensor.index].event_subscriptions[i] :
              i \in DOMAIN SENSORS[sensor.index].event_subscriptions}

\* C15: the entity recomputes once when it is added, once on each event its
\* description lists, the first listed or not, while it is added, and never
\* on an event once it is removed or on an event not listed.
C15_RecomputeOnEveryListedEvent ==
    /\ sensor.last.event = "added" => sensor.last.recomputes = 1
    /\ sensor.last.event \in DeviceEvents =>
          sensor.last.recomputes =
              IF sensor.phase = "added" /\ sensor.last.event \in Listed THEN 1 ELSE 0
    /\ sensor.phase = "removed" => sensor.last.recomputes = 0

C15_Witness ==
    /\ SENSORS[sensor.index].event_subscriptions = <<EVENT_RAPID_WIND, EVENT_OBSERVATION>>
    /\ sensor.phase = "added"
    /\ sensor.last = [event |-> EVENT_OBSERVATION, recomputes |-> 1]

\* The attribute the entity's description names, as the device holds it now.
BoundAttribute == GetAttr(sensor.device, SENSORS[sensor.index].key)

\* The entity's state was recomputed by the last step.
Refreshed == sensor.last.recomputes > 0

\* C21: after a refresh the entity is unavailable with no value if the device's
\* attribute is null, and otherwise available with the extractor's result for
\* the attribute's current value as its value.
C21_RefreshPublishes ==
    Refreshed =>
        IF BoundAttribute = None
        THEN ~sensor.available /\ sensor.native_value = None
        ELSE /\ sensor.available
             /\ sensor.native_value =
                   RawDataConvFn(SENSORS[sensor.index], BoundAttribute).value

(***************************************************************************)
(* Properties of the extractors (SpecExtract).                             *)
(***************************************************************************)
Extracted == extraction.table # "none" /\ extraction.result # NotExtracted

\* The raw value the description reads is None or missing.
RawIsNull ==
    IF extraction.table = "push"
    THEN \/ SENSORS[extraction.index].key \notin DOMAIN extraction.input
         \/ extraction.input[SENSORS[extraction.index].key] = None
    ELSE extraction.input[WFSensors[extraction.index].field] = None

\* C16: every description's extractor, of the push table and of the pull
\* table, yields None on a null or missing raw value and never raises.
C16_NullYieldsAbsent ==
    (Extracted /\ RawIsNull) => extraction.result = Returned(None)

\* The extraction was of the precipitation type, from an enum member.
PrecipitationExtracted ==
    /\ Extracted
    /\ extraction.table = "push"
    /\ SENSORS[extraction.index].key = "precipitation_type"
    /\ ~RawIsNull

RawName == extraction.input["precipitation_type"].s

\* The name is "unknown" in some letter case.
IsUnknown(name) ==
    /\ Len(name) = 7
    /\ name[1] \in {"u", "U"} /\ name[2] \in {"n", "N"} /\ name[3] \in {"k", "K"}
    /\ name[4] \in {"n", "N"} /\ name[5] \in {"o", "O"} /\ name[6] \in {"w", "W"}
    /\ name[7] \in {"n", "N"}

\* The lower-cased names of the members tried.
LowerCased(name) ==
    CASE name \in {<<"N", "O", "N", "E">>} -> <<"n", "o", "n", "e">>
      [] name \in {<<"R", "A", "I", "N">>, <<"R", "a", "i", "n">>} -> <<"r", "a", "i", "n">>
      [] name \in {<<"H", "A", "I", "L">>} -> <<"h", "a", "i", "l">>
      [] name = <<"R", "A", "I", "N", "_", "H", "A", "I", "L">> ->
            <<"r", "a", "i", "n", "_", "h", "a", "i", "l">>
      [] OTHER -> <<>>

\* C18: the precipitation-type extractor yields None for a member named
\* "unknown" in any letter case and the lower-cased name for any other member.
C18_PrecipitationType ==
    PrecipitationExtracted =>
        /\ extraction.result.raised = "none"
        /\ extraction.result.value =
              IF IsUnknown(RawName) THEN None ELSE StrV(LowerCased(RawName))

C18_Witness ==
    /\ PrecipitationExtracted
    /\ RawName = <<"R", "a", "i", "n">>
    /\ extraction.result.value = StrV(<<"r", "a", "i", "n">>)

(***************************************************************************)
(* Properties of the pull entities (SpecPull).                             *)
(***************************************************************************)
\* The observation list of the station read, in the coordinator's snapshot.
ReadObs == coordinators[HookEntry].data[lastHook.read.station]

\* The last hook call was a read of a station the snapshot holds.
ReadOfKnownStation ==
    /\ lastHook.hook = "read"
    /\ lastHook.read.station \in DOMAIN coordinators[HookEntry].data

\* C23: a read of a pull entity yields the extractor's result for the first
\* record of its station's observation list in the coordinator's most recent
\* snapshot, so a read that follows a refresh reflects it; with an empty
\* observation list the read faults.
C23_ReadIsFirstRecordOfSnapshot ==
    ReadOfKnownStation =>
        IF ReadObs = <<>>
        THEN lastHook.raised = "IndexError"
        ELSE /\ lastHook.raised = "none"
             /\ lastHook.read.value =
                   IF WFSensors[lastHook.read.index].value_fn = "attribute"
                   THEN IntV(Head(ReadObs))
                   ELSE Datetime(Head(ReadObs))

C23_Witness ==
    /\ ReadOfKnownStation
    /\ lastHook.read.prev = "refresh"
    /\ ReadObs = <<2, 1>>
    /\ lastHook.read.value = IntV(2)

=============================================================================
